---- MODULE Spec2Model ----
(***************************************************************************)
(* Model of incfontdisc: fuzzy font matching over the installed fonts.     *)
(*                                                                         *)
(* Strings are sequences of character codes (ASCII, "C" locale), so that   *)
(* std::tolower / std::isalnum act on them as they do in the code.         *)
(* float scores are exact rationals <<num, den>> in lowest terms.          *)
(***************************************************************************)
EXTENDS Integers, Sequences, FiniteSets, TLC

VARIABLES
    backend,    \* which backend the build selected: "fontconfig" or "dwrite"
    env,        \* what the platform library does: "ok", "init_fail", "list_fail"
    fontSet,    \* the installed faces, in the platform's enumeration order
    query,      \* the FontQuery of the match_fonts call
    pc,         \* "idle" before the call, "done" after it returned
    result,     \* what match_fonts returned
    scan,       \* the call's best_family_* locals after the family loop
    fnOp,       \* the pure function under test
    fnA, fnB,   \* its arguments
    fnPc,       \* "idle" / "done"
    fnRet,      \* its return value
    file,       \* what the file system holds at the identifier's path
    factory,    \* get_factory's function-local static: "null" or "valid"
    tpc,        \* per thread: where its match_fonts call stands
    tquery,     \* per thread: the query of its call
    tlocal,     \* per thread: the factory get_factory returned to it
    tresult,    \* per thread: what its call returned
    readers,    \* the threads whose call read the static factory
    writers     \* the threads whose call wrote the static factory

matchVars == <<backend, env, fontSet, query, pc, result, scan>>
fnVars == <<fnOp, fnA, fnB, fnPc, fnRet, file>>
concVars == <<factory, tpc, tquery, tlocal, tresult, readers, writers>>
vars == <<matchVars, fnVars, concVars>>

\* --------------------------------------------------------------------------
\* Bounds
\* --------------------------------------------------------------------------
MaxLen == 3        \* longest string given to levenshtein_distance
MaxNameLen == 3    \* longest string given to family_similarity
MaxIdLen == 4      \* longest identifier given to parse_font_id
MaxCatalog == 2    \* most installed faces
MaxThreads == 2    \* threads calling match_fonts at once

\* --------------------------------------------------------------------------
\* Rationals standing for the code's float values
\* --------------------------------------------------------------------------
RECURSIVE GCD(_, _)
GCD(a, b) == IF b = 0 THEN a ELSE GCD(b, a % b)

Abs(x) == IF x < 0 THEN -x ELSE x
Min(x, y) == IF x < y THEN x ELSE y
Max(x, y) == IF x > y THEN x ELSE y

\* n/d, d > 0, in lowest terms
Rat(n, d) == LET g == GCD(Abs(n), d) IN <<n \div g, d \div g>>
RatZero == <<0, 1>>
RatOne == <<1, 1>>
RatGT(x, y) == x[1] * y[2] > y[1] * x[2]
RatLE(x, y) == x[1] * y[2] <= y[1] * x[2]
RatAdd(x, y) == Rat(x[1] * y[2] + y[1] * x[2], x[2] * y[2])
RatSub(x, y) == Rat(x[1] * y[2] - y[1] * x[2], x[2] * y[2])
RatMin(x, y) == IF RatGT(x, y) THEN y ELSE x
RatMax(x, y) == IF RatGT(x, y) THEN x ELSE y
RatDivInt(x, k) == Rat(x[1], x[2] * k)

\* --------------------------------------------------------------------------
\* Characters and strings
\* --------------------------------------------------------------------------
IsUpper(ch) == ch \in 65..90
IsLower(ch) == ch \in 97..122
IsDigit(ch) == ch \in 48..57
IsSpace(ch) == ch \in {32} \cup (9..13)
tolower(ch) == IF IsUpper(ch) THEN ch + 32 ELSE ch
isalnum(ch) == IsUpper(ch) \/ IsLower(ch) \/ IsDigit(ch)

\* all strings over alphabet of length at most n
StringsUpTo(alphabet, n) == UNION {[1..k -> alphabet] : k \in 0..n}

to_lower(value) == [i \in 1..Len(value) |-> tolower(value[i])]

normalize_family_nolower(value) == SelectSeq(value, isalnum)
normalize_family(value) == to_lower(SelectSeq(value, isalnum))

\* --------------------------------------------------------------------------
\* levenshtein_distance: two rows prev/curr indexed 0..|b|
\* --------------------------------------------------------------------------
Min3(x, y, z) == Min(x, Min(y, z))

LevCell_NoDelete(prev, curr, j, cost) == Min(curr[j - 1] + 1, prev[j - 1] + cost)
LevCell_NoInsert(prev, curr, j, cost) == Min(prev[j] + 1, prev[j - 1] + cost)
LevCell(prev, curr, j, cost) == Min3(prev[j] + 1, curr[j - 1] + 1, prev[j - 1] + cost)

LevCost_Flipped(x, y) == IF x = y THEN 1 ELSE 0
LevCost(x, y) == IF x = y THEN 0 ELSE 1

RECURSIVE LevInner(_, _, _, _, _, _)
LevInner(a, b, i, j, prev, curr) ==
    IF j > Len(b) THEN curr
    ELSE LevInner(a, b, i, j + 1, prev,
                  [curr EXCEPT ![j] = LevCell(prev, curr, j, LevCost(a[i], b[j]))])

RECURSIVE LevOuter(_, _, _, _, _)
LevOuter(a, b, i, prev, curr) ==
    IF i > Len(a) THEN prev
    ELSE LevOuter(a, b, i + 1,
                  LevInner(a, b, i, 1, prev, [curr EXCEPT ![0] = i]),
                  prev)

levenshtein_distance(a, b) ==
    IF a = b THEN 0
    ELSE IF a = <<>> THEN Len(b)
    ELSE IF b = <<>> THEN Len(a)
    ELSE LevOuter(a, b, 1, [j \in 0..Len(b) |-> j], [j \in 0..Len(b) |-> 0])[Len(b)]

\* --------------------------------------------------------------------------
\* family_similarity
\* --------------------------------------------------------------------------
SimilarityBase(dist, max_len) == RatSub(RatOne, RatMin(Rat(dist, max_len), RatOne))

family_similarity(candidate, q) ==
    LET norm_candidate == normalize_family(candidate)
        norm_query     == normalize_family(q)
    IN  IF norm_candidate = <<>> \/ norm_query = <<>> THEN RatZero
        ELSE IF norm_candidate = norm_query THEN RatOne
        ELSE LET max_len == Max(Len(norm_candidate), Len(norm_query))
                 dist    == levenshtein_distance(norm_candidate, norm_query)
             IN  RatMax(RatZero, SimilarityBase(dist, max_len))

\* --------------------------------------------------------------------------
\* parse_font_id and std::stoi
\* --------------------------------------------------------------------------
RECURSIVE rfind(_, _, _)
\* last position <= from holding ch, 0 for npos
rfind(s, ch, from) ==
    IF from = 0 THEN 0
    ELSE IF s[from] = ch THEN from
    ELSE rfind(s, ch, from - 1)

RECURSIVE SkipSpace(_, _)
SkipSpace(s, i) == IF i <= Len(s) /\ IsSpace(s[i]) THEN SkipSpace(s, i + 1) ELSE i

RECURSIVE StoiDigits(_, _, _, _)
\* accumulates the digits from position i on; [n |-> digits read, v |-> value,
\* range |-> FALSE once the value left the range of int]
StoiDigits(s, i, n, v) ==
    IF i <= Len(s) /\ IsDigit(s[i])
    THEN IF v > (2147483647 - (s[i] - 48)) \div 10
         THEN [n |-> n + 1, v |-> 0, range |-> FALSE]
         ELSE StoiDigits(s, i + 1, n + 1, v * 10 + (s[i] - 48))
    ELSE [n |-> n, v |-> v, range |-> TRUE]

\* std::stoi(s): leading whitespace, an optional sign, then decimal digits;
\* throws when there is no digit or the value is out of range
stoi(s) ==
    LET i    == SkipSpace(s, 1)
        neg  == i <= Len(s) /\ s[i] = 45
        sign == i <= Len(s) /\ s[i] \in {43, 45}
        d    == StoiDigits(s, IF sign THEN i + 1 ELSE i, 0, 0)
    IN  IF d.n = 0 \/ ~d.range THEN [throws |-> TRUE, value |-> 0]
        ELSE [throws |-> FALSE, value |-> IF neg THEN -d.v ELSE d.v]

parse_font_id(id) ==
    LET hash_pos == rfind(id, 35, Len(id))
    IN  IF hash_pos = 0 THEN [path |-> id, index |-> 0]
        ELSE LET parsed == stoi(SubSeq(id, hash_pos + 1, Len(id)))
             IN  [path  |-> SubSeq(id, 1, hash_pos - 1),
                  index |-> IF parsed.throws THEN 0 ELSE parsed.value]

\* --------------------------------------------------------------------------
\* read_file_bytes and load_font_data
\* --------------------------------------------------------------------------
\* A path names: no file ("missing"), a file the stream cannot open
\* ("unopenable"), a file of size 0 ("empty"), a file whose read fails
\* ("unreadable"), or a file that reads ("ok").
FileStates == {"missing", "unopenable", "empty", "unreadable", "ok"}

read_file_bytes_NoExistsTest(st) ==
    IF st \in {"missing", "unopenable"} THEN "SystemError"
    ELSE IF st = "empty" THEN "SystemError"
    ELSE IF st = "unreadable" THEN "SystemError"
    ELSE "Ok"
read_file_bytes(st) ==
    IF st = "missing" THEN "InvalidArgument"
    ELSE IF st = "unopenable" THEN "SystemError"
    ELSE IF st = "empty" THEN "SystemError"
    ELSE IF st = "unreadable" THEN "SystemError"
    ELSE "Ok"

FontconfigLoad(e, id, st) ==
    IF e = "init_fail" THEN "BackendUnavailable"
    ELSE IF parse_font_id(id).path = <<>> THEN "InvalidArgument"
    ELSE read_file_bytes(st)

DWriteLoad(id, st) ==
    IF parse_font_id(id).path = <<>> THEN "InvalidArgument"
    ELSE read_file_bytes(st)

load_font_data(b, e, id, st) ==
    IF b = "fontconfig" THEN FontconfigLoad(e, id, st) ELSE DWriteLoad(id, st)

\* --------------------------------------------------------------------------
\* Data model (incfontdisc.hpp)
\* --------------------------------------------------------------------------
\* std::optional<T>: <<>> when unset, <<v>> when set
None == <<>>
Some(v) == <<v>>
has(o) == o # <<>>
val(o) == o[1]

FontDescriptor(id, family, style, weight, stretch, italic) ==
    [id |-> id, family |-> family, style |-> style,
     weight |-> weight, stretch |-> stretch, italic |-> italic]

\* FontDescriptor{}: empty id, family and style, weight 400, stretch 100
DefaultDescriptor == FontDescriptor(<<>>, <<>>, <<>>, 400, 100, FALSE)

FontQuery(family, style, weight, stretch, italic) ==
    [family |-> family, style |-> style, weight |-> weight,
     stretch |-> stretch, italic |-> italic]

FontMatch(font, family_score, face_score) ==
    [code |-> "Ok", font |-> font, family_score |-> family_score, face_score |-> face_score]

\* std::unexpected(Error{code, ...})
Failure(code) ==
    [code |-> code, font |-> DefaultDescriptor, family_score |-> RatZero, face_score |-> RatZero]

\* --------------------------------------------------------------------------
\* face_score
\* --------------------------------------------------------------------------
StyleTerm(font, q) ==
    IF to_lower(font.style) = to_lower(val(q.style)) THEN RatOne ELSE RatZero

WeightTerm_NoAbs(font, q) ==
    LET diff == font.weight - val(q.weight)
    IN  RatSub(RatOne, RatMin(Rat(diff, 900), RatOne))
WeightTerm(font, q) ==
    LET diff == Abs(font.weight - val(q.weight))
    IN  RatSub(RatOne, RatMin(Rat(diff, 900), RatOne))

StretchRange_Either(font, q) == IF font.stretch <= 9 \/ val(q.stretch) <= 9 THEN 8 ELSE 150
StretchRange(font, q) == IF font.stretch <= 9 /\ val(q.stretch) <= 9 THEN 8 ELSE 150

StretchTerm(font, q) ==
    LET diff == Abs(font.stretch - val(q.stretch))
    IN  RatSub(RatOne, RatMin(Rat(diff, StretchRange(font, q)), RatOne))

ItalicTerm(font, q) == IF font.italic = val(q.italic) THEN RatOne ELSE RatZero

face_score(font, q) ==
    LET t1 == IF has(q.style) THEN StyleTerm(font, q) ELSE RatZero
        t2 == IF has(q.weight) THEN RatAdd(t1, WeightTerm(font, q)) ELSE t1
        t3 == IF has(q.stretch) THEN RatAdd(t2, StretchTerm(font, q)) ELSE t2
        total == IF has(q.italic) THEN RatAdd(t3, ItalicTerm(font, q)) ELSE t3
        count == Cardinality({f \in {"style", "weight", "stretch", "italic"} : has(q[f])})
    IN  IF count = 0 THEN RatZero ELSE RatDivInt(total, count)

\* --------------------------------------------------------------------------
\* match_fonts
\* --------------------------------------------------------------------------
\* One pass of the family loop over the family names in enumeration order.
\* best = [norm, score, name]: best_family_norm, best_family_score and (dwrite)
\* best_family_name / best_family.
RECURSIVE FamilyScan_LastWins(_, _, _, _)
FamilyScan_LastWins(names, i, qfam, best) ==
    IF i > Len(names) THEN best
    ELSE LET family_name == names[i] IN
         IF family_name = <<>> THEN FamilyScan_LastWins(names, i + 1, qfam, best)
         ELSE IF to_lower(family_name) = to_lower(qfam)
              THEN [norm |-> normalize_family(family_name), score |-> RatOne,
                    name |-> family_name]
         ELSE LET score == family_similarity(family_name, qfam) IN
              IF RatGT(score, RatZero) /\ RatLE(best.score, score)
              THEN FamilyScan_LastWins(names, i + 1, qfam,
                              [norm |-> normalize_family(family_name), score |-> score,
                               name |-> family_name])
              ELSE FamilyScan_LastWins(names, i + 1, qfam, best)

RECURSIVE FamilyScan(_, _, _, _)
FamilyScan(names, i, qfam, best) ==
    IF i > Len(names) THEN best
    ELSE LET family_name == names[i] IN
         IF family_name = <<>> THEN FamilyScan(names, i + 1, qfam, best)
         ELSE IF to_lower(family_name) = to_lower(qfam)
              THEN [norm |-> normalize_family(family_name), score |-> RatOne,
                    name |-> family_name]
         ELSE LET score == family_similarity(family_name, qfam) IN
              IF RatGT(score, best.score)
              THEN FamilyScan(names, i + 1, qfam,
                              [norm |-> normalize_family(family_name), score |-> score,
                               name |-> family_name])
              ELSE FamilyScan(names, i + 1, qfam, best)

NoFamily == [norm |-> <<>>, score |-> RatZero, name |-> <<>>]

ExactFace_NoItalic(d, q) ==
    /\ has(q.style) => to_lower(d.style) = to_lower(val(q.style))
    /\ has(q.weight) => d.weight = val(q.weight)
    /\ has(q.stretch) => d.stretch = val(q.stretch)
ExactFace(d, q) ==
    /\ has(q.style) => to_lower(d.style) = to_lower(val(q.style))
    /\ has(q.weight) => d.weight = val(q.weight)
    /\ has(q.stretch) => d.stretch = val(q.stretch)
    /\ has(q.italic) => d.italic = val(q.italic)

\* "Regular"
StyleRegular == <<82, 101, 103, 117, 108, 97, 114>>

DefaultStyle(q) == IF has(q.style) THEN q ELSE [q EXCEPT !.style = Some(StyleRegular)]

DefaultRest(q) ==
    [q EXCEPT !.weight  = IF has(q.weight) THEN q.weight ELSE Some(400),
              !.stretch = IF has(q.stretch) THEN q.stretch ELSE Some(100),
              !.italic  = IF has(q.italic) THEN q.italic ELSE Some(FALSE)]

RECURSIVE BestFace(_, _, _, _)
\* the scoring loop: res_match after visiting faces i..Len(faces)
BestFace(faces, i, q, res_match) ==
    IF i > Len(faces) THEN res_match
    ELSE LET score == face_score(faces[i], q) IN
         IF RatGT(score, res_match.face_score)
         THEN BestFace(faces, i + 1, q,
                       [res_match EXCEPT !.font = faces[i], !.face_score = score])
         ELSE BestFace(faces, i + 1, q, res_match)

\* the exact-face loop, then the defaults, then the scoring loop
SelectFace(faces, q0, best_family_score) ==
    LET q1    == DefaultStyle(q0)
        exact == {i \in 1..Len(faces) : ExactFace(faces[i], q1)}
    IN  IF exact # {}
        THEN FontMatch(faces[CHOOSE i \in exact : \A k \in exact : i <= k],
                       best_family_score, RatOne)
        ELSE BestFace(faces, 1, DefaultRest(q1),
                      FontMatch(DefaultDescriptor, best_family_score, RatZero))

FamilyNamesOf(fonts) == [i \in 1..Len(fonts) |-> fonts[i].family]

RECURSIVE Distinct(_, _, _)
\* the names of s in order of first occurrence
Distinct(s, i, acc) ==
    IF i > Len(s) THEN acc
    ELSE IF \E k \in 1..Len(acc) : acc[k] = s[i] THEN Distinct(s, i + 1, acc)
    ELSE Distinct(s, i + 1, Append(acc, s[i]))

\* the checks before the family loop, in the order each backend makes them
FontconfigPrecheck(e, q) ==
    IF e = "init_fail" THEN "BackendUnavailable"
    ELSE IF ~has(q.family) THEN "InvalidArgument"
    ELSE IF e = "list_fail" THEN "SystemError"
    ELSE "Ok"

DWritePrecheck(e, q) ==
    IF ~has(q.family) THEN "InvalidArgument"
    ELSE IF e = "init_fail" THEN "BackendUnavailable"
    ELSE IF e = "list_fail" THEN "SystemError"
    ELSE "Ok"

\* fontconfig walks every pattern of the font set
FontconfigScan(fonts, q) ==
    FamilyScan(FamilyNamesOf(fonts), 1, val(q.family), NoFamily)

\* DirectWrite walks the families of the system collection
DWriteScan(fonts, q) ==
    FamilyScan(Distinct(FamilyNamesOf(fonts), 1, <<>>), 1, val(q.family), NoFamily)

\* best_family_fonts: the patterns whose normalized family is best_family_norm
FontconfigFaces(fonts, best) ==
    LET InBest(f) == f.family # <<>> /\ normalize_family(f.family) = best.norm
    IN  SelectSeq(fonts, InBest)

\* the fonts of the best_family object
DWriteFaces(fonts, best) ==
    LET InBest(f) == f.family = best.name
    IN  SelectSeq(fonts, InBest)

FontconfigMatch(e, fonts, q) ==
    IF FontconfigPrecheck(e, q) # "Ok" THEN Failure(FontconfigPrecheck(e, q))
    ELSE LET best == FontconfigScan(fonts, q) IN
         IF best.norm = <<>> THEN Failure("NoFontsFound")
         ELSE SelectFace(FontconfigFaces(fonts, best), q, best.score)

DWriteMatch(e, fonts, q) ==
    IF DWritePrecheck(e, q) # "Ok" THEN Failure(DWritePrecheck(e, q))
    ELSE LET best == DWriteScan(fonts, q) IN
         IF best.norm = <<>> THEN Failure("NoFontsFound")
         ELSE SelectFace(DWriteFaces(fonts, best), q, best.score)

match_fonts(b, e, fonts, q) ==
    IF b = "fontconfig" THEN FontconfigMatch(e, fonts, q) ELSE DWriteMatch(e, fonts, q)

\* the family loop's outcome, NoFamily when the call returned before the loop
FamilyResolution(b, e, fonts, q) ==
    IF b = "fontconfig"
    THEN IF FontconfigPrecheck(e, q) # "Ok" THEN NoFamily ELSE FontconfigScan(fonts, q)
    ELSE IF DWritePrecheck(e, q) # "Ok" THEN NoFamily ELSE DWriteScan(fonts, q)

\* --------------------------------------------------------------------------
\* The installed fonts and the queries the model draws from
\* --------------------------------------------------------------------------
\* family names: "Arial", "Ari-al", "--", "", "Uriel"
NameArial == <<65, 114, 105, 97, 108>>
NameAriDashAl == <<65, 114, 105, 45, 97, 108>>
NameDashes == <<45, 45>>
NameUriel == <<85, 114, 105, 101, 108>>
\* query families: "arial", "Ariel", "Zz"
NameArialLower == <<97, 114, 105, 97, 108>>
NameAriel == <<65, 114, 105, 101, 108>>
NameZz == <<90, 122>>
\* styles: "Bold", "bold"
StyleBold == <<66, 111, 108, 100>>
StyleBoldLower == <<98, 111, 108, 100>>

\* descriptor.id.value = file + "#" + std::to_string(index), file "f<k>"
MakeId(k, index) == <<102, 48 + k, 35, 48 + index>>

\* the faces a system may have installed
Universe ==
    { FontDescriptor(MakeId(1, 0), NameArial, StyleRegular, 400, 100, FALSE),
      FontDescriptor(MakeId(2, 0), NameArial, StyleBold, 700, 100, FALSE),
      FontDescriptor(MakeId(3, 0), NameArial, StyleBold, 1400, 300, TRUE),
      FontDescriptor(MakeId(4, 0), NameArial, StyleRegular, 400, 5, FALSE),
      FontDescriptor(MakeId(5, 0), NameAriDashAl, StyleRegular, 400, 100, FALSE),
      FontDescriptor(MakeId(6, 0), NameDashes, StyleRegular, 400, 100, FALSE),
      FontDescriptor(MakeId(6, 1), <<>>, StyleRegular, 400, 100, FALSE),
      FontDescriptor(MakeId(7, 0), NameUriel, StyleRegular, 400, 100, FALSE) }

IsInjective(s) == \A i, j \in 1..Len(s) : s[i] = s[j] => i = j

FontSets == {s \in UNION {[1..k -> Universe] : k \in 0..MaxCatalog} : IsInjective(s)}

Queries ==
    { FontQuery(f, st, w, sr, it) :
        f  \in {None, Some(NameArialLower), Some(NameAriel), Some(NameDashes), Some(NameZz)},
        st \in {None, Some(StyleBoldLower)},
        w  \in {None, Some(700), Some(-600)},
        sr \in {None, Some(9), Some(400)},
        it \in {None, Some(TRUE)} }

NoQuery == FontQuery(None, None, None, None, None)

\* the descriptors list_fonts returns for the installed faces
Catalog == fontSet

\* --------------------------------------------------------------------------
\* The inputs of one call of a pure function
\* --------------------------------------------------------------------------
LevStrings == StringsUpTo({97, 98}, MaxLen)                 \* over "ab"
NameStrings == StringsUpTo({65, 97, 98, 45}, MaxNameLen)    \* over "Aab-"
IdStrings == StringsUpTo({102, 35, 45, 49, 32}, MaxIdLen)   \* over "f#-1 "

MatchIdle ==
    /\ backend = "fontconfig" /\ env = "ok" /\ fontSet = <<>>
    /\ query = NoQuery /\ pc = "idle" /\ result = Failure("None") /\ scan = NoFamily

FnIdle ==
    /\ fnOp = "none" /\ fnA = <<>> /\ fnB = <<>> /\ fnPc = "idle" /\ fnRet = 0
    /\ file = "none"

Threads == 1..MaxThreads

ConcIdle ==
    /\ factory = "null"
    /\ tpc = [t \in Threads |-> "idle"]
    /\ tquery = [t \in Threads |-> NoQuery]
    /\ tlocal = [t \in Threads |-> "null"]
    /\ tresult = [t \in Threads |-> Failure("None")]
    /\ readers = {}
    /\ writers = {}

\* --------------------------------------------------------------------------
\* Specification of match_fonts
\* --------------------------------------------------------------------------
Init ==
    /\ backend \in {"fontconfig", "dwrite"}
    /\ env \in {"ok", "init_fail", "list_fail"}
    /\ fontSet \in FontSets
    /\ query = NoQuery
    /\ pc = "idle"
    /\ result = Failure("None")
    /\ scan = NoFamily
    /\ FnIdle
    /\ ConcIdle

MatchFonts ==
    /\ pc = "idle"
    /\ \E q \in Queries :
        /\ query' = q
        /\ result' = match_fonts(backend, env, fontSet, q)
        /\ scan' = FamilyResolution(backend, env, fontSet, q)
    /\ pc' = "done"
    /\ UNCHANGED <<backend, env, fontSet, fnVars, concVars>>

Next == MatchFonts

Spec == Init /\ [][Next]_vars

\* --------------------------------------------------------------------------
\* Specification of one match_fonts call over faces of close attributes
\* --------------------------------------------------------------------------
\* "Arial" in both styles, both weights, upright and italic, at stretch 100,
\* with the out-of-range, the ordinal-stretch and the "Ari-al" face of Universe
FaceUniverse ==
    { FontDescriptor(MakeId(8, 0), NameArial, StyleRegular, 700, 100, FALSE),
      FontDescriptor(MakeId(8, 1), NameArial, StyleBold, 400, 100, FALSE),
      FontDescriptor(MakeId(8, 2), NameArial, StyleRegular, 400, 100, TRUE),
      FontDescriptor(MakeId(8, 3), NameArial, StyleRegular, 700, 100, TRUE),
      FontDescriptor(MakeId(8, 4), NameArial, StyleBold, 400, 100, TRUE),
      FontDescriptor(MakeId(8, 5), NameArial, StyleBold, 700, 100, TRUE) }
    \cup {f \in Universe : f.family \in {NameArial, NameAriDashAl}}

FaceSets == {s \in UNION {[1..k -> FaceUniverse] : k \in 0..MaxCatalog} : IsInjective(s)}

FaceQueries ==
    { FontQuery(Some(NameArialLower), st, w, sr, it) :
        st \in {None, Some(StyleBoldLower), Some(StyleRegular)},
        w  \in {None, Some(400), Some(700)},
        sr \in {None, Some(100), Some(9)},
        it \in {None, Some(FALSE), Some(TRUE)} }

InitFace ==
    /\ backend \in {"fontconfig", "dwrite"}
    /\ env = "ok"
    /\ fontSet \in FaceSets
    /\ query = NoQuery
    /\ pc = "idle"
    /\ result = Failure("None")
    /\ scan = NoFamily
    /\ FnIdle
    /\ ConcIdle

MatchFaces ==
    /\ pc = "idle"
    /\ \E q \in FaceQueries :
        /\ query' = q
        /\ result' = match_fonts(backend, env, fontSet, q)
        /\ scan' = FamilyResolution(backend, env, fontSet, q)
    /\ pc' = "done"
    /\ UNCHANGED <<backend, env, fontSet, fnVars, concVars>>

NextFace == MatchFaces

SpecFace == InitFace /\ [][NextFace]_vars

\* --------------------------------------------------------------------------
\* Specification of the pure functions
\* --------------------------------------------------------------------------
\* the descriptors and queries face_score is called with
ScoredFonts == Universe \cup FaceUniverse
ScoredQueries == Queries \cup FaceQueries

InitFn ==
    /\ MatchIdle
    /\ ConcIdle
    /\ fnPc = "idle"
    /\ fnRet = 0
    /\ file = "none"
    /\ \/ fnOp = "levenshtein_distance" /\ fnA \in LevStrings /\ fnB \in LevStrings
       \/ fnOp = "family_similarity" /\ fnA \in NameStrings /\ fnB \in NameStrings
       \/ fnOp = "parse_font_id" /\ fnA \in IdStrings /\ fnB = <<>>
       \/ fnOp = "face_score" /\ fnA \in ScoredFonts /\ fnB \in ScoredQueries

CallLevenshtein ==
    /\ fnPc = "idle" /\ fnOp = "levenshtein_distance"
    /\ fnRet' = levenshtein_distance(fnA, fnB)
    /\ fnPc' = "done"
    /\ UNCHANGED <<matchVars, concVars, fnOp, fnA, fnB, file>>

CallFamilySimilarity ==
    /\ fnPc = "idle" /\ fnOp = "family_similarity"
    /\ fnRet' = family_similarity(fnA, fnB)
    /\ fnPc' = "done"
    /\ UNCHANGED <<matchVars, concVars, fnOp, fnA, fnB, file>>

CallParseFontId ==
    /\ fnPc = "idle" /\ fnOp = "parse_font_id"
    /\ fnRet' = parse_font_id(fnA)
    /\ fnPc' = "done"
    /\ UNCHANGED <<matchVars, concVars, fnOp, fnA, fnB, file>>

CallFaceScore ==
    /\ fnPc = "idle" /\ fnOp = "face_score"
    /\ fnRet' = face_score(fnA, fnB)
    /\ fnPc' = "done"
    /\ UNCHANGED <<matchVars, concVars, fnOp, fnA, fnB, file>>

NextFn == CallLevenshtein \/ CallFamilySimilarity \/ CallParseFontId \/ CallFaceScore

SpecFn == InitFn /\ [][NextFn]_vars

\* --------------------------------------------------------------------------
\* Specification of load_font_data
\* --------------------------------------------------------------------------
InitLoad ==
    /\ backend \in {"fontconfig", "dwrite"}
    /\ env \in {"ok", "init_fail"}
    /\ fontSet = <<>>
    /\ query = NoQuery /\ pc = "idle" /\ result = Failure("None") /\ scan = NoFamily
    /\ ConcIdle
    /\ fnOp = "load_font_data" /\ fnA \in IdStrings /\ fnB = <<>>
    /\ fnPc = "idle" /\ fnRet = 0
    /\ file \in FileStates

LoadFontData ==
    /\ fnPc = "idle" /\ fnOp = "load_font_data"
    /\ fnRet' = load_font_data(backend, env, fnA, file)
    /\ fnPc' = "done"
    /\ UNCHANGED <<matchVars, concVars, fnOp, fnA, fnB, file>>

NextLoad == LoadFontData

SpecLoad == InitLoad /\ [][NextLoad]_vars

\* --------------------------------------------------------------------------
\* Specification of concurrent match_fonts calls (DirectWrite backend)
\* --------------------------------------------------------------------------
\* Threads call match_fonts with no synchronisation between them.  Each call
\* goes through get_factory, whose static ComPtr is tested, written by
\* DWriteCreateFactory through GetAddressOf when it is null, and copied out.
ConcQueries ==
    { FontQuery(f, None, w, None, None) :
        f \in {None, Some(NameArialLower), Some(NameAriel)}, w \in {None, Some(700)} }

InitConc ==
    /\ backend = "dwrite"
    /\ env \in {"ok", "init_fail"}
    /\ fontSet \in {s \in FontSets : Len(s) <= 1}
    /\ query = NoQuery /\ pc = "idle" /\ result = Failure("None") /\ scan = NoFamily
    /\ FnIdle
    /\ ConcIdle

\* another thread is inside DWriteCreateFactory, storing into the static
WriteInFlight(t) == \E u \in Threads \ {t} : tpc[u] = "gf_writing"

\* what a read of the static by t can yield: its value, or, when the read
\* races with a store in flight, either value
FactoryRead(t) == IF WriteInFlight(t) THEN {"null", "valid"} ELSE {factory}

Call(t) ==
    /\ tpc[t] = "idle"
    /\ \E q \in ConcQueries : tquery' = [tquery EXCEPT ![t] = q]
    /\ tpc' = [tpc EXCEPT ![t] = "entered"]
    /\ UNCHANGED <<matchVars, fnVars, factory, tlocal, tresult, readers, writers>>

CheckFamily(t) ==
    /\ tpc[t] = "entered"
    /\ IF ~has(tquery[t].family)
       THEN /\ tresult' = [tresult EXCEPT ![t] = Failure("InvalidArgument")]
            /\ tpc' = [tpc EXCEPT ![t] = "done"]
       ELSE /\ tpc' = [tpc EXCEPT ![t] = "gf_test"]
            /\ UNCHANGED tresult
    /\ UNCHANGED <<matchVars, fnVars, factory, tquery, tlocal, readers, writers>>

\* if (factory) { return factory; }
GetFactoryTest(t) ==
    /\ tpc[t] = "gf_test"
    /\ readers' = readers \cup {t}
    /\ \E seen \in FactoryRead(t) :
         IF seen = "valid"
         THEN /\ tlocal' = [tlocal EXCEPT ![t] = "valid"]
              /\ tpc' = [tpc EXCEPT ![t] = "collect"]
         ELSE /\ tpc' = [tpc EXCEPT ![t] = "gf_create"]
              /\ UNCHANGED tlocal
    /\ UNCHANGED <<matchVars, fnVars, factory, tquery, tresult, writers>>

\* DWriteCreateFactory(..., factory.GetAddressOf()) begins
GetFactoryCreate(t) ==
    /\ tpc[t] = "gf_create"
    /\ writers' = writers \cup {t}
    /\ tpc' = [tpc EXCEPT ![t] = "gf_writing"]
    /\ UNCHANGED <<matchVars, fnVars, factory, tquery, tlocal, tresult, readers>>

\* the store lands; if (FAILED(hr)) { factory.Reset(); }
GetFactoryStore(t) ==
    /\ tpc[t] = "gf_writing"
    /\ factory' = IF env = "ok" THEN "valid" ELSE "null"
    /\ tpc' = [tpc EXCEPT ![t] = "gf_return"]
    /\ UNCHANGED <<matchVars, fnVars, tquery, tlocal, tresult, readers, writers>>

\* return factory;
GetFactoryReturn(t) ==
    /\ tpc[t] = "gf_return"
    /\ readers' = readers \cup {t}
    /\ \E seen \in FactoryRead(t) : tlocal' = [tlocal EXCEPT ![t] = seen]
    /\ tpc' = [tpc EXCEPT ![t] = "collect"]
    /\ UNCHANGED <<matchVars, fnVars, factory, tquery, tresult, writers>>

\* if (!factory) BackendUnavailable; else the rest of match_fonts, which
\* touches only the call's own locals and the read-only font collection
Collect(t) ==
    /\ tpc[t] = "collect"
    /\ tresult' = [tresult EXCEPT ![t] =
                     IF tlocal[t] = "null" THEN Failure("BackendUnavailable")
                     ELSE DWriteMatch("ok", fontSet, tquery[t])]
    /\ tpc' = [tpc EXCEPT ![t] = "done"]
    /\ UNCHANGED <<matchVars, fnVars, factory, tquery, tlocal, readers, writers>>

NextConc ==
    \E t \in Threads :
        \/ Call(t)
        \/ CheckFamily(t)
        \/ GetFactoryTest(t)
        \/ GetFactoryCreate(t)
        \/ GetFactoryStore(t)
        \/ GetFactoryReturn(t)
        \/ Collect(t)

SpecConc == InitConc /\ [][NextConc]_vars

\* --------------------------------------------------------------------------
\* Properties
\* --------------------------------------------------------------------------
Returned == pc = "done"
Matched == pc = "done" /\ result.code = "Ok"
FnReturned(op) == fnPc = "done" /\ fnOp = op
InUnit(x) == RatLE(RatZero, x) /\ RatLE(x, RatOne)

ArialRegular == FontDescriptor(MakeId(1, 0), NameArial, StyleRegular, 400, 100, FALSE)
ArialBold == FontDescriptor(MakeId(2, 0), NameArial, StyleBold, 700, 100, FALSE)

\* C1: for a query with family set (and a working backend), match fails with
\* NoFontsFound exactly when the catalog is empty.
C1_NoFontsFoundIffEmpty ==
    (Returned /\ env = "ok" /\ has(query.family))
        => (result.code = "NoFontsFound" <=> Catalog = <<>>)

\* C2: catalog [Arial Regular 400, Arial Bold 700], query {family "arial",
\* weight 700}: family_score 1.0, the Bold face is returned, and face_score is
\* the weight-only score of that face.
C2_BoldFaceWins ==
    (Returned /\ env = "ok" /\ fontSet = <<ArialRegular, ArialBold>>
       /\ query = FontQuery(Some(NameArialLower), None, Some(700), None, None))
        => /\ result.code = "Ok"
           /\ result.family_score = RatOne
           /\ result.font = ArialBold
           /\ result.face_score = face_score(ArialBold, query)

OnlyArialInstalled ==
    fontSet # <<>> /\ \A i \in 1..Len(fontSet) : fontSet[i].family = NameArial

\* C3 as stated: only family "Arial", query family "Ariel": edit distance 2
\* over length 5, similarity 0.6, family resolved to "Arial" with score 0.6.
C3_Original ==
    (Returned /\ env = "ok" /\ OnlyArialInstalled /\ query.family = Some(NameAriel))
        => /\ levenshtein_distance(normalize_family(NameArial), normalize_family(NameAriel)) = 2
           /\ family_similarity(NameArial, NameAriel) = Rat(3, 5)
           /\ scan.name = NameArial
           /\ result.code = "Ok"
           /\ result.family_score = Rat(3, 5)

\* C3 amended: only family "Arial", query family "Ariel": edit distance 1 over
\* length 5, similarity 0.8, family resolved to "Arial" with family_score 0.8.
C3_ArielResolvesToArial ==
    (Returned /\ env = "ok" /\ OnlyArialInstalled /\ query.family = Some(NameAriel))
        => /\ levenshtein_distance(normalize_family(NameArial), normalize_family(NameAriel)) = 1
           /\ family_similarity(NameArial, NameAriel) = Rat(4, 5)
           /\ scan.name = NameArial
           /\ result.code = "Ok"
           /\ result.family_score = Rat(4, 5)

C3_Witness ==
    /\ Returned /\ env = "ok" /\ fontSet = <<ArialRegular>>
    /\ query.family = Some(NameAriel)
    /\ result.code = "Ok" /\ result.family_score = Rat(4, 5)

\* two characters equal up to letter case
SameCharNoCase(x, y) ==
    \/ x = y
    \/ IsUpper(x) /\ y = x + 32
    \/ IsUpper(y) /\ x = y + 32

RECURSIVE SameLetters(_, _, _, _)
\* a from i on and b from j on differ only in letter case and in
\* non-alphanumeric characters
SameLetters(a, b, i, j) ==
    IF i <= Len(a) /\ ~isalnum(a[i]) THEN SameLetters(a, b, i + 1, j)
    ELSE IF j <= Len(b) /\ ~isalnum(b[j]) THEN SameLetters(a, b, i, j + 1)
    ELSE IF i > Len(a) \/ j > Len(b) THEN i > Len(a) /\ j > Len(b)
    ELSE SameCharNoCase(a[i], b[j]) /\ SameLetters(a, b, i + 1, j + 1)

HasAlnum(a) == \E i \in 1..Len(a) : isalnum(a[i])

\* C4 as stated: family_similarity(a, b) = 1.0 whenever a and b differ only in
\* letter case and non-alphanumeric characters (so family_similarity(a, a) = 1.0
\* for every a, the empty and the punctuation-only strings included).
C4_Original ==
    (FnReturned("family_similarity") /\ SameLetters(fnA, fnB, 1, 1)) => fnRet = RatOne

\* C4 amended: for strings a, b holding at least one alphanumeric character,
\* family_similarity(a, b) = 1.0 whenever they differ only in letter case and
\* non-alphanumeric characters (so family_similarity(a, a) = 1.0 for such a);
\* for a string without alphanumeric characters family_similarity(a, a) = 0.0.
C4_SimilarityOneUpToCaseAndPunctuation ==
    (FnReturned("family_similarity") /\ SameLetters(fnA, fnB, 1, 1))
        => fnRet = IF HasAlnum(fnA) THEN RatOne ELSE RatZero

\* "A-" against "-a"
C4_Witness ==
    /\ FnReturned("family_similarity")
    /\ fnA = <<65, 45>> /\ fnB = <<45, 97>>
    /\ fnRet = RatOne

\* C5: with query.family unset, match fails with InvalidArgument whatever the
\* catalog, before the family scan and before any other failure is reported.
C5_InvalidArgumentFirst ==
    (Returned /\ ~has(query.family))
        => result.code = "InvalidArgument" /\ scan = NoFamily

\* what the call returns when no other call runs
AloneResult(q) == DWriteMatch(env, fontSet, q)

\* C6: concurrent match calls share no mutable state: no call writes a
\* variable another call reads or writes, and each call returns the result it
\* returns when run alone.
C6_NoSharedMutableState ==
    /\ \A t \in writers : (readers \cup writers) \subseteq {t}
    /\ \A t \in Threads : tpc[t] = "done" => tresult[t] = AloneResult(tquery[t])

\* C7: every FontMatch has family_score and face_score in [0,1], and
\* family_similarity of every installed family with the query family is in [0,1].
C7_ScoresInUnitInterval ==
    /\ Matched => InUnit(result.family_score) /\ InUnit(result.face_score)
    /\ (Returned /\ has(query.family))
         => \A i \in 1..Len(fontSet) :
              InUnit(family_similarity(fontSet[i].family, val(query.family)))

\* a face with weight 1400 and stretch 300 scored against weight -600, stretch 9
C7_Witness ==
    /\ Matched
    /\ result.font.weight = 1400 /\ result.font.stretch = 300
    /\ query.weight = Some(-600) /\ query.stretch = Some(9)
    /\ result.face_score # RatOne

RECURSIVE EditDistance(_, _, _, _)
\* the least number of single-character insertions, deletions and
\* substitutions turning the first i characters of a into the first j of b
EditDistance(a, b, i, j) ==
    IF i = 0 THEN j
    ELSE IF j = 0 THEN i
    ELSE Min3(EditDistance(a, b, i - 1, j) + 1,
              EditDistance(a, b, i, j - 1) + 1,
              EditDistance(a, b, i - 1, j - 1) + (IF a[i] = b[j] THEN 0 ELSE 1))

\* C8: levenshtein_distance(a, b) is the Levenshtein distance of a and b; the
\* distance between the empty string and s is the length of s, in both orders.
C8_LevenshteinIsEditDistance ==
    FnReturned("levenshtein_distance")
        => /\ fnRet = EditDistance(fnA, fnB, Len(fnA), Len(fnB))
           /\ fnA = <<>> => fnRet = Len(fnB)
           /\ fnB = <<>> => fnRet = Len(fnA)

\* "ab" against "bab": distance 1
C8_Witness ==
    /\ FnReturned("levenshtein_distance")
    /\ fnA = <<97, 98>> /\ fnB = <<98, 97, 98>>
    /\ fnRet = 1

\* C9: levenshtein_distance(a, b) = levenshtein_distance(b, a), for strings of
\* equal or different lengths.
C9_LevenshteinSymmetric ==
    FnReturned("levenshtein_distance") => fnRet = levenshtein_distance(fnB, fnA)

\* strings of different lengths at distance 2
C9_Witness ==
    /\ FnReturned("levenshtein_distance")
    /\ Len(fnA) < Len(fnB) /\ fnA # <<>>
    /\ fnRet = 2

\* the text after the last '#' is a non-empty run of decimal digits
RECURSIVE DigitsValue(_, _)
DigitsValue(s, n) == IF n = 0 THEN 0 ELSE DigitsValue(s, n - 1) * 10 + (s[n] - 48)

IsNonNegativeInteger(s) == s # <<>> /\ \A i \in 1..Len(s) : IsDigit(s[i])

\* C10: parse_font_id returns a non-negative face index: the integer after the
\* last '#' when that suffix is a non-negative integer, and 0 when the
\* identifier has no '#' or the suffix holds no digit.
C10_FaceIndexNonNegative ==
    FnReturned("parse_font_id")
        => LET hash_pos == rfind(fnA, 35, Len(fnA))
               suffix   == SubSeq(fnA, hash_pos + 1, Len(fnA))
           IN  /\ fnRet.index >= 0
               /\ hash_pos = 0 => fnRet.index = 0
               /\ (hash_pos # 0 /\ IsNonNegativeInteger(suffix))
                    => fnRet.index = DigitsValue(suffix, Len(suffix))
               /\ (hash_pos # 0 /\ \A i \in 1..Len(suffix) : ~IsDigit(suffix[i]))
                    => fnRet.index = 0

\* the identifier up to its last '#', the whole identifier when it has none
PathPart(id) ==
    LET hashes == {i \in 1..Len(id) : id[i] = 35}
    IN  IF hashes = {} THEN id
        ELSE SubSeq(id, 1, (CHOOSE i \in hashes : \A k \in hashes : k <= i) - 1)

LoadReturned == FnReturned("load_font_data") /\ (backend = "dwrite" \/ env = "ok")

\* C11 as stated: load_font_data reports InvalidArgument only for an
\* identifier with an empty path part, and SystemError when the path part is
\* not empty but the file is missing, unreadable or empty.
C11_Original ==
    LoadReturned
        => /\ fnRet = "InvalidArgument" => PathPart(fnA) = <<>>
           /\ (PathPart(fnA) # <<>> /\ file \in {"missing", "unopenable", "unreadable", "empty"})
                => fnRet = "SystemError"

\* C11 amended: once the backend is initialised, load_font_data reports
\* InvalidArgument for an identifier with an empty path part and also when the
\* file it names does not exist; it reports SystemError when the file exists
\* but cannot be opened, is empty, or cannot be read; otherwise it succeeds.
C11_LoadFailureKinds ==
    LoadReturned
        => fnRet = IF PathPart(fnA) = <<>> \/ file = "missing" THEN "InvalidArgument"
                   ELSE IF file \in {"unopenable", "unreadable", "empty"} THEN "SystemError"
                   ELSE "Ok"

\* "f#1" naming a file that does not exist
C11_Witness ==
    /\ LoadReturned
    /\ fnA = <<102, 35, 49>> /\ file = "missing"
    /\ fnRet = "InvalidArgument"

\* the family names of the installed faces, in enumeration order
InstalledNames == FamilyNamesOf(fontSet)

\* positions of the families equal to the query family up to letter case
ExactFamilies ==
    {i \in 1..Len(fontSet) :
        /\ Len(InstalledNames[i]) = Len(val(query.family))
        /\ \A k \in 1..Len(InstalledNames[i]) :
              SameCharNoCase(InstalledNames[i][k], val(query.family)[k])}

SetMin(S) == CHOOSE i \in S : \A k \in S : i <= k

Resolving == Returned /\ env = "ok" /\ has(query.family)

\* C12: if some installed family equals query.family case-insensitively, match
\* resolves to the first such family with family_score = 1.0, whatever was
\* seen before it.
C12_ExactFamilyWins ==
    (Resolving /\ ExactFamilies # {})
        => /\ scan.name = InstalledNames[SetMin(ExactFamilies)]
           /\ scan.score = RatOne
           /\ result.code = "Ok"
           /\ result.family_score = RatOne

\* the same, for family names holding an alphanumeric character (auxiliary)
ExactFamilyWinsForAlnumNames ==
    (Resolving /\ ExactFamilies # {} /\ HasAlnum(val(query.family)))
        => /\ scan.name = InstalledNames[SetMin(ExactFamilies)]
           /\ result.code = "Ok"
           /\ result.family_score = RatOne

\* positions whose family_similarity to the query family is the greatest
MostSimilar ==
    {i \in 1..Len(fontSet) :
        \A k \in 1..Len(fontSet) :
            RatLE(family_similarity(InstalledNames[k], val(query.family)),
                  family_similarity(InstalledNames[i], val(query.family)))}

\* C13: when no installed family equals query.family case-insensitively and
\* match succeeds, the resolved family is the earliest family of greatest
\* family_similarity, and family_score is that similarity; a later family of
\* equal similarity does not replace it.
C13_EarliestMostSimilarFamily ==
    (Matched /\ ExactFamilies = {})
        => /\ scan.name = InstalledNames[SetMin(MostSimilar)]
           /\ scan.norm = normalize_family(InstalledNames[SetMin(MostSimilar)])
           /\ result.family_score =
                family_similarity(InstalledNames[SetMin(MostSimilar)], val(query.family))

\* "Uriel" then "Arial", both at similarity 0.8 to "Ariel": "Uriel" is kept
C13_Witness ==
    /\ Matched
    /\ Len(fontSet) = 2
    /\ fontSet[1].family = NameUriel /\ fontSet[2].family = NameArial
    /\ query.family = Some(NameAriel)
    /\ scan.name = NameUriel /\ result.family_score = Rat(4, 5)
    /\ result.font.family = NameUriel

\* the faces the backend gathered for the family it resolved (best_family_fonts)
Candidates ==
    IF backend = "fontconfig" THEN FontconfigFaces(fontSet, scan)
    ELSE DWriteFaces(fontSet, scan)

\* the installed faces whose family name is the name of the resolved family
FacesOfResolvedFamily ==
    LET Named(f) == f.family = scan.name IN SelectSeq(fontSet, Named)

\* the style of the query, "Regular" when unset
QueryStyle == IF has(query.style) THEN val(query.style) ELSE StyleRegular

SameStyle(a, b) ==
    Len(a) = Len(b) /\ \A k \in 1..Len(a) : SameCharNoCase(a[k], b[k])

\* face f has every attribute the query sets
MatchesSetAttributes(f) ==
    /\ SameStyle(f.style, QueryStyle)
    /\ has(query.weight) => f.weight = val(query.weight)
    /\ has(query.stretch) => f.stretch = val(query.stretch)
    /\ has(query.italic) => f.italic = val(query.italic)

ExactIn(faces) == {i \in 1..Len(faces) : MatchesSetAttributes(faces[i])}

\* C14: if the resolved family has a face matching every attribute the query
\* sets (unset style read as "Regular"), match returns the first such face
\* with face_score = 1.0; unset weight, stretch, italic never prevent this.
C14_FirstExactFace ==
    (Matched /\ ExactIn(FacesOfResolvedFamily) # {})
        => /\ result.font = FacesOfResolvedFamily[SetMin(ExactIn(FacesOfResolvedFamily))]
           /\ result.face_score = RatOne

\* the same over the faces the backend gathered (auxiliary)
FirstExactCandidate ==
    (Matched /\ ExactIn(Candidates) # {})
        => /\ result.font = Candidates[SetMin(ExactIn(Candidates))]
           /\ result.face_score = RatOne

FirstExactCandidate_Witness ==
    /\ Matched
    /\ Len(Candidates) = 2
    /\ ExactIn(Candidates) = {2}
    /\ ~has(query.weight) /\ Candidates[2].weight = 700
    /\ result.font = Candidates[2]

\* the query of the scoring pass: style, weight, stretch, italic all set
DefaultedQuery ==
    FontQuery(query.family,
              Some(QueryStyle),
              IF has(query.weight) THEN query.weight ELSE Some(400),
              IF has(query.stretch) THEN query.stretch ELSE Some(100),
              IF has(query.italic) THEN query.italic ELSE Some(FALSE))

\* positions of the gathered faces whose face_score is the greatest
TopScored ==
    {i \in 1..Len(Candidates) :
        \A k \in 1..Len(Candidates) :
            RatLE(face_score(Candidates[k], DefaultedQuery),
                  face_score(Candidates[i], DefaultedQuery))}

\* C15: when the resolved family has no exact face, match returns the earliest
\* face of greatest face_score under the defaulted query, and that score,
\* for every attribute value, also when the greatest score is 0.
C15_EarliestBestFace ==
    (Matched /\ ExactIn(Candidates) = {})
        => /\ result.font = Candidates[SetMin(TopScored)]
           /\ result.face_score = face_score(Candidates[SetMin(TopScored)], DefaultedQuery)

\* the same when some gathered face scores above 0 (auxiliary)
EarliestBestFaceAboveZero ==
    (Matched /\ ExactIn(Candidates) = {}
       /\ \E i \in 1..Len(Candidates) :
             RatGT(face_score(Candidates[i], DefaultedQuery), RatZero))
        => /\ result.font = Candidates[SetMin(TopScored)]
           /\ result.face_score = face_score(Candidates[SetMin(TopScored)], DefaultedQuery)

EarliestBestFaceAboveZero_Witness ==
    /\ Matched
    /\ ExactIn(Candidates) = {}
    /\ Len(Candidates) = 2
    /\ TopScored = {1, 2}
    /\ Candidates[1].weight # Candidates[2].weight
    /\ result.font = Candidates[1]
    /\ RatGT(result.face_score, RatZero)

InCatalog(f) == \E i \in 1..Len(fontSet) : fontSet[i] = f

\* C17: every successful match returns a font that is an element of the
\* catalog, never a default-constructed descriptor.
C17_ReturnedFontInstalled ==
    Matched => InCatalog(result.font)

\* C18: in the fontconfig backend the faces searched are exactly the installed
\* faces named as the resolved family, so the returned font's family is the
\* family that won the resolution.
C18_FontconfigSearchesResolvedFamily ==
    (Matched /\ backend = "fontconfig")
        => /\ Candidates = FacesOfResolvedFamily
           /\ InCatalog(result.font) => result.font.family = scan.name

\* the same for the DirectWrite backend (auxiliary)
DWriteSearchesResolvedFamily ==
    (Matched /\ backend = "dwrite")
        => /\ Candidates = FacesOfResolvedFamily
           /\ InCatalog(result.font) => result.font.family = scan.name

\* the attributes a query sets
SetAttributes(q) == {a \in {"style", "weight", "stretch", "italic"} : has(q[a])}

\* 1800 times the term of attribute a for font and query q, as an integer:
\* style and italic 1 or 0, weight 1 - min(|dw|/900, 1), stretch
\* 1 - min(|ds|/range, 1), range 8 when both stretches are <= 9, else 150
ScaledTerm(a, font, q) ==
    IF a = "style" THEN (IF SameStyle(font.style, val(q.style)) THEN 1800 ELSE 0)
    ELSE IF a = "weight" THEN 1800 - 2 * Min(Abs(font.weight - val(q.weight)), 900)
    ELSE IF a = "stretch"
         THEN IF font.stretch <= 9 /\ val(q.stretch) <= 9
              THEN 1800 - 225 * Min(Abs(font.stretch - val(q.stretch)), 8)
              ELSE 1800 - 12 * Min(Abs(font.stretch - val(q.stretch)), 150)
    ELSE (IF font.italic = val(q.italic) THEN 1800 ELSE 0)

RECURSIVE SumScaled(_, _, _)
SumScaled(S, font, q) ==
    IF S = {} THEN 0
    ELSE LET a == CHOOSE x \in S : TRUE
         IN  ScaledTerm(a, font, q) + SumScaled(S \ {a}, font, q)

\* C16: face_score is the unweighted average of the terms of exactly the
\* attributes the query sets; 0.0 when the query sets none and 1.0 when every
\* set attribute matches the font exactly.
C16_FaceScoreIsAverage ==
    FnReturned("face_score") =>
        LET S == SetAttributes(fnB) IN
        /\ S = {} => fnRet = RatZero
        /\ S # {} => /\ fnRet[2] > 0
                     /\ fnRet[1] * 1800 * Cardinality(S) = SumScaled(S, fnA, fnB) * fnRet[2]
        /\ (S # {} /\ \A a \in S : ScaledTerm(a, fnA, fnB) = 1800) => fnRet = RatOne

\* "Arial"/Regular/400/5 against {bold, 700, 9, italic}: (0 + 2/3 + 1/2 + 0) / 4
C16_Witness ==
    /\ FnReturned("face_score")
    /\ fnA.stretch = 5 /\ fnB.stretch = Some(9)
    /\ fnA.weight = 400 /\ fnB.weight = Some(700)
    /\ has(fnB.style) /\ has(fnB.italic)
    /\ fnRet = Rat(7, 24)

FullySpecified(q) ==
    has(q.style) /\ has(q.weight) /\ has(q.stretch) /\ has(q.italic)

\* the result of the scoring loop alone over the gathered faces
ScoringPassAlone ==
    BestFace(Candidates, 1, query, FontMatch(DefaultDescriptor, scan.score, RatZero))

\* C19: for a query setting style, weight, stretch and italic whose resolved
\* family has an exactly matching face, the exact-face shortcut returns the
\* face and the face_score (1.0) the scoring pass alone would return.
C19_ShortcutPreservesScoring ==
    (Matched /\ FullySpecified(query) /\ ExactIn(FacesOfResolvedFamily) # {})
        => /\ result = ScoringPassAlone
           /\ result.face_score = RatOne

\* the exact face comes second, after a face that differs in italic only
C19_Witness ==
    /\ Matched /\ FullySpecified(query)
    /\ Len(Candidates) = 2
    /\ ExactIn(FacesOfResolvedFamily) # {}
    /\ ExactIn(Candidates) = {2}
    /\ face_score(Candidates[1], query) = Rat(3, 4)
    /\ result.font = Candidates[2]
    /\ result = ScoringPassAlone

\* the result came from the scoring loop: no gathered face was exact
FromFallback == Matched /\ ExactIn(Candidates) = {}

\* C20: a successful match has face_score = 1.0 exactly when the resolved
\* family has a face matching every attribute the query sets (unset style
\* read as "Regular"); a result of the fallback scoring pass is below 1.0.
C20_FullScoreIffExactFace ==
    Matched =>
        /\ result.face_score = RatOne <=> ExactIn(FacesOfResolvedFamily) # {}
        /\ FromFallback => ~RatLE(RatOne, result.face_score)

\* the same over the faces the backend gathered (auxiliary)
FullScoreIffExactCandidate ==
    Matched =>
        /\ result.face_score = RatOne <=> ExactIn(Candidates) # {}
        /\ FromFallback => ~RatLE(RatOne, result.face_score)

FullScoreIffExactCandidate_Witness ==
    /\ FromFallback
    /\ result.face_score = Rat(3, 4)
    /\ InCatalog(result.font)

====
